---- MODULE Spec2Model ----
(***************************************************************************)
(* Model of the Orcon Ramses_RF command encoder                            *)
(* (src/orcon_ramses_rf_command.py, class OrconRamsesRFCommand).           *)
(*                                                                         *)
(* Frames and payloads are strings, built by the same concatenations as    *)
(* the f-strings of the source.  Python floats are IEEE-754 binary64       *)
(* numbers: they are modelled as sign, exponent and a 53-bit significand   *)
(* with round-to-nearest-even, so that `m3 / capacity * 100` and           *)
(* `temperature * 100` round as they do in the interpreter.                *)
(***************************************************************************)
EXTENDS Integers, Sequences, FiniteSets, TLC

VARIABLES remote, wtw, capacity_in_m3_per_hour, ctor_capacity, op, arg, result,
          first_call,
          pc, commands, next_cmd, client_calls, connect_calls, disconnect_calls,
          pending, on_connect_rc

vars == <<remote, wtw, capacity_in_m3_per_hour, ctor_capacity, op, arg, result,
          first_call,
          pc, commands, next_cmd, client_calls, connect_calls, disconnect_calls,
          pending, on_connect_rc>>

(***************************************************************************)
(* Bounds of the exploration.                                              *)
(***************************************************************************)
\* every numeric argument is drawn from a range that starts NegArgs below 0
NegArgs == 2
\* integer arguments of the parameter setters: -NegArgs..MaxArg
MaxArg == 182
\* flow rates (m3/h) handed to set_fan_speed: -NegArgs..MaxFlow
MaxFlow == 408
\* comfort temperatures are the decimal literals n/100, n in -NegArgs..MaxTemp
MaxTemp == 3012
\* parameter numbers handed to _fan_speed_payload: -NegArgs..MaxParam
MaxParam == 19

(***************************************************************************)
(* Python float arithmetic (IEEE-754 binary64, round to nearest, ties to   *)
(* even).  A float is [sign, exp, man]: man = <<c1, c2, c3, c4>> holds the *)
(* 52 fraction bits of the significand in four limbs of LimbBits bits,     *)
(* most significant first; the value is                                    *)
(*   sign * (1 + c1/Limb + c2/Limb^2 + c3/Limb^3 + c4/Limb^4) * 2^exp.     *)
(* Zero has the empty significand.  The operands that occur here are far   *)
(* from the subnormal and overflow ranges of binary64.                     *)
(***************************************************************************)
LimbBits == 13

Limb == 2 ^ LimbBits

Abs(n) == IF n < 0 THEN -n ELSE n

Sign(n) == IF n < 0 THEN -1 ELSE 1

FloatZero(s) == [sign |-> s, exp |-> 0, man |-> <<>>]

\* add one unit in the last place; <<0, 0, 0, 0>> when the carry runs out
AddUlp(c) ==
    IF c[4] + 1 < Limb THEN <<c[1], c[2], c[3], c[4] + 1>>
    ELSE IF c[3] + 1 < Limb THEN <<c[1], c[2], c[3] + 1, 0>>
    ELSE IF c[2] + 1 < Limb THEN <<c[1], c[2] + 1, 0, 0>>
    ELSE IF c[1] + 1 < Limb THEN <<c[1] + 1, 0, 0, 0>>
    ELSE <<0, 0, 0, 0>>

\* round the exact value 1.c * 2^e, followed by a guard bit and a sticky
\* flag for the bits behind it, to the 53-bit significand
RoundNearestEven(s, e, c, guard, sticky) ==
    LET up == guard = 1 /\ (sticky \/ c[4] % 2 = 1)
    IN  IF ~up THEN [sign |-> s, exp |-> e, man |-> c]
        ELSE IF c = <<Limb - 1, Limb - 1, Limb - 1, Limb - 1>>
             THEN [sign |-> s, exp |-> e + 1, man |-> <<0, 0, 0, 0>>]
             ELSE [sign |-> s, exp |-> e, man |-> AddUlp(c)]

\* scale a / b into [1, 2) by powers of two
RECURSIVE Normalise(_, _, _)
Normalise(a, b, e) ==
    IF a >= 2 * b THEN Normalise(a, 2 * b, e + 1)
    ELSE IF a < b THEN Normalise(2 * a, b, e - 1)
    ELSE [a |-> a, b |-> b, e |-> e]

\* the next LimbBits bits of the binary expansion of r / b (0 <= r < b)
QuotientLimb(r, b) == [q |-> (r * Limb) \div b, r |-> (r * Limb) % b]

\* n / d on two ints, d # 0: the correctly rounded quotient
FloatDiv(n, d) ==
    LET s == Sign(n) * Sign(d)
    IN  IF n = 0 THEN FloatZero(s)
        ELSE LET nm == Normalise(Abs(n), Abs(d), 0)
                 k1 == QuotientLimb(nm.a - nm.b, nm.b)
                 k2 == QuotientLimb(k1.r, nm.b)
                 k3 == QuotientLimb(k2.r, nm.b)
                 k4 == QuotientLimb(k3.r, nm.b)
                 k5 == QuotientLimb(k4.r, nm.b)
             IN  RoundNearestEven(s, nm.e, <<k1.q, k2.q, k3.q, k4.q>>,
                                  k5.q \div (Limb \div 2),
                                  k5.q % (Limb \div 2) # 0 \/ k5.r # 0)

\* float(n) for an int n
FloatFromInt(n) == FloatDiv(n, 1)

\* number of bits of n > 0
RECURSIVE BitLength(_)
BitLength(n) == IF n = 0 THEN 0 ELSE 1 + BitLength(n \div 2)

\* f * k for a float f and an int k, 0 < k < Limb: the correctly rounded
\* product
FloatMulInt(f, k) ==
    IF f.man = <<>> THEN f
    ELSE LET c  == f.man
             p4 == c[4] * k
             p3 == c[3] * k + p4 \div Limb
             p2 == c[2] * k + p3 \div Limb
             p1 == c[1] * k + p2 \div Limb
             p0 == k + p1 \div Limb
             L  == <<p0, p1 % Limb, p2 % Limb, p3 % Limb, p4 % Limb>>
             sh == BitLength(p0) - 1
             D  == 2 ^ sh
             r  == [i \in 1..4 |-> (L[i] % D) * (Limb \div D) + L[i + 1] \div D]
             out == L[5] % D
         IN  IF sh = 0 THEN f
             ELSE RoundNearestEven(f.sign, f.exp + sh, r,
                                   out \div (D \div 2), out % (D \div 2) # 0)

\* int(f): truncation toward zero (|f| < 2^(2 * LimbBits + 1))
FloatToInt(f) ==
    IF f.man = <<>> \/ f.exp < 0 THEN 0
    ELSE IF f.exp <= LimbBits
         THEN f.sign * ((Limb + f.man[1]) \div 2 ^ (LimbBits - f.exp))
         ELSE f.sign * (((Limb + f.man[1]) * Limb + f.man[2])
                        \div 2 ^ (2 * LimbBits - f.exp))

\* |f| < |g| for two non-zero floats
MagLess(f, g) ==
    \/ f.exp < g.exp
    \/ /\ f.exp = g.exp
       /\ \E i \in 1..4 :
            /\ f.man[i] < g.man[i]
            /\ \A j \in 1..(i - 1) : f.man[j] = g.man[j]

\* f <= g
FloatLE(f, g) ==
    IF f.man = <<>> THEN g.man = <<>> \/ g.sign = 1
    ELSE IF g.man = <<>> THEN f.sign = -1
    ELSE IF f.sign # g.sign THEN f.sign = -1
    ELSE IF f.sign = 1 THEN ~MagLess(g, f)
    ELSE ~MagLess(f, g)

(***************************************************************************)
(* Python string operations used by the encoder.                           *)
(***************************************************************************)
Char(s, i) == SubSeq(s, i, i)

HexChar(d) == Char("0123456789ABCDEF", d + 1)

RECURSIVE HexDigits(_)
HexDigits(n) ==
    IF n < 16 THEN HexChar(n) ELSE HexDigits(n \div 16) \o HexChar(n % 16)

RECURSIVE ZeroPad(_, _)
ZeroPad(s, width) == IF Len(s) >= width THEN s ELSE ZeroPad("0" \o s, width)

\* f"{n:0<width>X}": uppercase hex, zero-padded to at least width characters,
\* never truncated
FormatX(n, width) ==
    IF n < 0 THEN "-" \o ZeroPad(HexDigits(-n), width - 1)
    ELSE ZeroPad(HexDigits(n), width)

LowerChar(c) ==
    LET upper == "ABCDEFGHIJKLMNOPQRSTUVWXYZ"
        lower == "abcdefghijklmnopqrstuvwxyz"
    IN  IF \E i \in 1..26 : Char(upper, i) = c
        THEN Char(lower, CHOOSE i \in 1..26 : Char(upper, i) = c)
        ELSE c

\* str.lower() on ASCII text
RECURSIVE Lower(_)
Lower(s) ==
    IF Len(s) = 0 THEN ""
    ELSE LowerChar(Char(s, 1)) \o Lower(SubSeq(s, 2, Len(s)))

(***************************************************************************)
(* Outcome of a call: a returned value or a raised exception.              *)
(***************************************************************************)
NoResult == [kind |-> "none", value |-> <<>>, exc |-> "", msg |-> ""]

Return(v) == [kind |-> "return", value |-> v, exc |-> "", msg |-> ""]

Raise(e, m) == [kind |-> "raise", value |-> <<>>, exc |-> e, msg |-> m]

(***************************************************************************)
(* OrconRamsesRFCommand: private helpers.                                  *)
(***************************************************************************)
\* faulty variant of param_suffix: parameters 7 and 8 with their suffixes exchanged
param_suffix_uncorrected ==
    3 :> "00000000000000A0000000010032" @@
    4 :> "00000000000000A0000000010032" @@
    5 :> "00000000000000C8000000010032" @@
    6 :> "00000014000000C8000000010032" @@
    7 :> "00000014000000C8000000010032" @@
    8 :> "00000000000000C8000000010032"

param_suffix ==
    3 :> "00000000000000A0000000010032" @@
    4 :> "00000000000000A0000000010032" @@
    5 :> "00000000000000C8000000010032" @@
    6 :> "00000014000000C8000000010032" @@
    7 :> "00000000000000C8000000010032" @@
    8 :> "00000014000000C8000000010032"

\* faulty variant of _fan_speed_payload: source and destination swapped
_fan_speed_payload_swapped(param, speed_percentage) ==
    IF ~(3 <= param /\ param <= 8)
    THEN Raise("ValueError", "Parameter must be between 3 and 8.")
    ELSE IF ~(1 <= speed_percentage /\ speed_percentage <= 100)
    THEN Raise("ValueError", "Speed percentage must be between 1 and 100.")
    ELSE LET param_id  == param + 60
             speed_hex == FormatX(speed_percentage * 2, 2)
             prefix    == "0000" \o FormatX(param_id, 2) \o "000F000000" \o speed_hex
             suffix    == param_suffix[param]
             payload   == prefix \o suffix
         IN  Return("W --- " \o wtw \o " " \o remote \o " --:------ "
                    \o "2411 023 " \o payload)

\* faulty variant of _fan_speed_payload: the percentage 0 is let through
_fan_speed_payload_from_zero(param, speed_percentage) ==
    IF ~(3 <= param /\ param <= 8)
    THEN Raise("ValueError", "Parameter must be between 3 and 8.")
    ELSE IF ~(0 <= speed_percentage /\ speed_percentage <= 100)
    THEN Raise("ValueError", "Speed percentage must be between 1 and 100.")
    ELSE LET param_id  == param + 60
             speed_hex == FormatX(speed_percentage * 2, 2)
             prefix    == "0000" \o FormatX(param_id, 2) \o "000F000000" \o speed_hex
             suffix    == param_suffix[param]
             payload   == prefix \o suffix
         IN  Return("W --- " \o remote \o " " \o wtw \o " --:------ "
                    \o "2411 023 " \o payload)

\* faulty variant of _fan_speed_payload: the percentage is examined first
_fan_speed_payload_percentage_first(param, speed_percentage) ==
    IF ~(1 <= speed_percentage /\ speed_percentage <= 100)
    THEN Raise("ValueError", "Speed percentage must be between 1 and 100.")
    ELSE IF ~(3 <= param /\ param <= 8)
    THEN Raise("ValueError", "Parameter must be between 3 and 8.")
    ELSE LET param_id  == param + 60
             speed_hex == FormatX(speed_percentage * 2, 2)
             prefix    == "0000" \o FormatX(param_id, 2) \o "000F000000" \o speed_hex
             suffix    == param_suffix[param]
             payload   == prefix \o suffix
         IN  Return("W --- " \o remote \o " " \o wtw \o " --:------ "
                    \o "2411 023 " \o payload)

_fan_speed_payload(param, speed_percentage) ==
    IF ~(3 <= param /\ param <= 8)
    THEN Raise("ValueError", "Parameter must be between 3 and 8.")
    ELSE IF ~(1 <= speed_percentage /\ speed_percentage <= 100)
    THEN Raise("ValueError", "Speed percentage must be between 1 and 100.")
    ELSE LET param_id  == param + 60
             speed_hex == FormatX(speed_percentage * 2, 2)
             prefix    == "0000" \o FormatX(param_id, 2) \o "000F000000" \o speed_hex
             suffix    == param_suffix[param]
             payload   == prefix \o suffix
         IN  Return("W --- " \o remote \o " " \o wtw \o " --:------ "
                    \o "2411 023 " \o payload)

\* int((m3_per_hour / self.capacity_in_m3_per_hour) * 100)
_calculate_percentage_from_m3_per_hour(m3_per_hour) ==
    IF capacity_in_m3_per_hour = 0
    THEN Raise("ZeroDivisionError", "division by zero")
    ELSE Return(FloatToInt(FloatMulInt(
                    FloatDiv(m3_per_hour, capacity_in_m3_per_hour), 100)))

\* the two _fan_speed_payload calls of one branch of set_fan_speed
FanSpeedPair(supply, exhaust, percentage) ==
    LET first  == _fan_speed_payload(supply, percentage)
        second == _fan_speed_payload(exhaust, percentage)
    IN  IF first.kind = "raise" THEN first
        ELSE IF second.kind = "raise" THEN second
        ELSE Return(<<first.value, second.value>>)

(***************************************************************************)
(* OrconRamsesRFCommand: public operations.  Each yields Return(<<frame,   *)
(* ...>>) or Raise(exception, message).                                    *)
(***************************************************************************)
\* faulty variant of set_fan_speed: the low pair is built exhaust first
set_fan_speed_exhaust_first(level_name, m3_per_hour) ==
    LET lvl == Lower(level_name)
        pct == _calculate_percentage_from_m3_per_hour(m3_per_hour)
    IN  IF pct.kind = "raise" THEN pct
        ELSE IF lvl = "low" THEN FanSpeedPair(4, 3, pct.value)
        ELSE IF lvl = "medium" THEN FanSpeedPair(5, 6, pct.value)
        ELSE IF lvl = "high" THEN FanSpeedPair(7, 8, pct.value)
        ELSE Raise("ValueError", "level_name must be 'low/medium/high.")

set_fan_speed(level_name, m3_per_hour) ==
    LET lvl == Lower(level_name)
        pct == _calculate_percentage_from_m3_per_hour(m3_per_hour)
    IN  IF pct.kind = "raise" THEN pct
        ELSE IF lvl = "low" THEN FanSpeedPair(3, 4, pct.value)
        ELSE IF lvl = "medium" THEN FanSpeedPair(5, 6, pct.value)
        ELSE IF lvl = "high" THEN FanSpeedPair(7, 8, pct.value)
        ELSE Raise("ValueError", "level_name must be 'low/medium/high.")

turn_fan_off ==
    Return(<< "I --- " \o remote \o " " \o wtw \o " --:------ " \o "22F1 003 " \o "000007" >>)

set_to_low_mode ==
    Return(<< "I --- " \o remote \o " " \o wtw \o " --:------ " \o "22F1 003 " \o "000104" >>)

set_to_medium_mode ==
    Return(<< "I --- " \o remote \o " " \o wtw \o " --:------ " \o "22F1 003 " \o "000204" >>)

set_to_high_mode ==
    Return(<< "I --- " \o remote \o " " \o wtw \o " --:------ " \o "22F1 003 " \o "000304" >>)

set_to_auto_mode ==
    Return(<< "I --- " \o remote \o " " \o wtw \o " --:------ " \o "22F1 003 " \o "000407" >>)

\* faulty variant of set_to_auto2_mode: the payload of auto mode is repeated
set_to_auto2_mode_as_auto ==
    Return(<< "I --- " \o remote \o " " \o wtw \o " --:------ " \o "22F1 003 " \o "000407" >>)

set_to_auto2_mode ==
    Return(<< "I --- " \o remote \o " " \o wtw \o " --:------ " \o "22F1 003 " \o "000507" >>)

set_to_boost_mode ==
    Return(<< "I --- " \o remote \o " " \o wtw \o " --:------ " \o "22F1 003 " \o "000607" >>)

disable_mode ==
    Return(<< "I --- " \o remote \o " " \o wtw \o " --:------ " \o "22F1 003 " \o "000707" >>)

\* faulty variant of open_bypass: the frame is sent with verb I
open_bypass_informational ==
    Return(<< "I --- " \o remote \o " " \o wtw \o " --:------ " \o "22F7 003 " \o "00C8EF" >>)

open_bypass ==
    Return(<< "W --- " \o remote \o " " \o wtw \o " --:------ " \o "22F7 003 " \o "00C8EF" >>)

close_bypass ==
    Return(<< "W --- " \o remote \o " " \o wtw \o " --:------ " \o "22F7 003 " \o "0000EF" >>)

automatic_bypass ==
    Return(<< "W --- " \o remote \o " " \o wtw \o " --:------ " \o "22F7 003 " \o "00FFEF" >>)

set_absence_supply_fan_speed(speed_percentage) ==
    IF ~(0 <= speed_percentage /\ speed_percentage <= 40)
    THEN Raise("ValueError",
               "Speed percentage for absence supply fan must be between 0 and 40.")
    ELSE LET param_id  == 61
             speed_hex == FormatX(speed_percentage * 2, 2)
             prefix    == "0000" \o FormatX(param_id, 2) \o "000F000000" \o speed_hex
             suffix    == "0000000000000050000000010032"
             payload   == prefix \o suffix
         IN  Return(<< "W --- " \o remote \o " " \o wtw \o " --:------ "
                       \o "2411 023 " \o payload >>)

set_absence_exhaust_fan_speed(speed_percentage) ==
    IF ~(0 <= speed_percentage /\ speed_percentage <= 40)
    THEN Raise("ValueError",
               "Speed percentage for absence exhaust fan must be between 0 and 40.")
    ELSE LET param_id  == 62
             speed_hex == FormatX(speed_percentage * 2, 2)
             prefix    == "0000" \o FormatX(param_id, 2) \o "000F000000" \o speed_hex
             suffix    == "0000000000000050000000010032"
             payload   == prefix \o suffix
         IN  Return(<< "W --- " \o remote \o " " \o wtw \o " --:------ "
                       \o "2411 023 " \o payload >>)

set_boost_mode_speed(speed_percentage) ==
    IF ~(0 <= speed_percentage /\ speed_percentage <= 100)
    THEN Raise("ValueError",
               "Speed percentage for boost mode must be between 0 and 100.")
    ELSE LET param_id  == 149
             speed_hex == FormatX(speed_percentage * 2, 2)
             prefix    == "0000" \o FormatX(param_id, 2) \o "000F000000" \o speed_hex
             suffix    == "00000000000000C8000000010032"
             payload   == prefix \o suffix
         IN  Return(<< "W --- " \o remote \o " " \o wtw \o " --:------ "
                       \o "2411 023 " \o payload >>)

filter_payload_map ==
    90  :> "00003100100000005A00000000000007080000001E002C" @@
    120 :> "00003100100000007800000000000007080000001E002C" @@
    150 :> "00003100100000009600000000000007080000001E002C" @@
    180 :> "0000310010000000B400000000000007080000001E002C"

\* faulty variant of set_filter_replacement_time: any number of days from 90 to 180 is encoded
set_filter_replacement_time_any_day(days) ==
    IF days \notin 90..180
    THEN Raise("ValueError", "Days must be one of the following: 90, 120, 150, 180.")
    ELSE LET payload == "0000310010000000" \o FormatX(days, 2)
                        \o "00000000000007080000001E002C"
         IN  Return(<< "W --- " \o remote \o " " \o wtw \o " --:------ "
                       \o "2411 023 " \o payload >>)

set_filter_replacement_time(days) ==
    IF days \notin DOMAIN filter_payload_map
    THEN Raise("ValueError", "Days must be one of the following: 90, 120, 150, 180.")
    ELSE LET payload == filter_payload_map[days]
         IN  Return(<< "W --- " \o remote \o " " \o wtw \o " --:------ "
                       \o "2411 023 " \o payload >>)

\* faulty variant of set_sensor_sensitivity: the value is scaled by 10
set_sensor_sensitivity_times_ten(sensitivity) ==
    IF ~(0 <= sensitivity /\ sensitivity <= 15)
    THEN Raise("ValueError", "Sensor sensitivity must be between 0 and 15.")
    ELSE LET param_id        == 82
             sensitivity_hex == FormatX(sensitivity * 10, 2)
             prefix  == "0000" \o FormatX(param_id, 2) \o "0001000000" \o sensitivity_hex
             suffix  == "00000000000000FA000000010032"
             payload == prefix \o suffix
         IN  Return(<< "W --- " \o remote \o " " \o wtw \o " --:------ "
                       \o "2411 023 " \o payload >>)

set_sensor_sensitivity(sensitivity) ==
    IF ~(0 <= sensitivity /\ sensitivity <= 15)
    THEN Raise("ValueError", "Sensor sensitivity must be between 0 and 15.")
    ELSE LET param_id        == 82
             sensitivity_hex == FormatX(sensitivity * 12, 2)
             prefix  == "0000" \o FormatX(param_id, 2) \o "0001000000" \o sensitivity_hex
             suffix  == "00000000000000FA000000010032"
             payload == prefix \o suffix
         IN  Return(<< "W --- " \o remote \o " " \o wtw \o " --:------ "
                       \o "2411 023 " \o payload >>)

set_humidity_scenario(mode) ==
    IF mode \notin {0, 1}
    THEN Raise("ValueError", "Humidity scenario mode must be 0 (Midden) or 1 (Hoog).")
    ELSE IF mode = 0
    THEN Return(<< "W --- " \o remote \o " " \o wtw
                   \o " --:------ 2411 023 00004E0000000000000000000000000001000000010000" >>)
    ELSE Return(<< "W --- " \o remote \o " " \o wtw
                   \o " --:------ 2411 023 00004E0000000000010000000000000001000000010000" >>)

\* faulty variant of set_humidity_scenario_runtime: the minutes are clamped to 15..60
set_humidity_scenario_runtime_clamped(minutes) ==
    LET clamped     == IF minutes < 15 THEN 15 ELSE IF minutes > 60 THEN 60 ELSE minutes
        param_id    == 84
        minutes_hex == FormatX(clamped, 2)
        prefix  == "0000" \o FormatX(param_id, 2) \o "0000000000" \o minutes_hex
        suffix  == "0000000F0000003C00000001002A"
        payload == prefix \o suffix
    IN  Return(<< "W --- " \o remote \o " " \o wtw \o " --:------ "
                  \o "2411 023 " \o payload >>)

set_humidity_scenario_runtime(minutes) ==
    IF ~(15 <= minutes /\ minutes <= 60)
    THEN Raise("ValueError",
               "Humidity scenario runtime must be between 15 and 60 minutes.")
    ELSE LET param_id    == 84
             minutes_hex == FormatX(minutes, 2)
             prefix  == "0000" \o FormatX(param_id, 2) \o "0000000000" \o minutes_hex
             suffix  == "0000000F0000003C00000001002A"
             payload == prefix \o suffix
         IN  Return(<< "W --- " \o remote \o " " \o wtw \o " --:------ "
                       \o "2411 023 " \o payload >>)

\* temperature is a float; the degree sign of the message is left out
set_comfort_temperature(temperature) ==
    IF ~(FloatLE(FloatFromInt(0), temperature) /\ FloatLE(temperature, FloatFromInt(30)))
    THEN Raise("ValueError", "Comfort temperature must be between 0.0 and 30.0 C.")
    ELSE LET temperature_hex     == FloatToInt(FloatMulInt(temperature, 100))
             temperature_encoded == FormatX(temperature_hex, 4)
         IN  Return(<< "W --- " \o remote \o " " \o wtw \o " --:------ "
                       \o "2411 023 00007500920000" \o temperature_encoded
                       \o "0000000000000BB8000000010001" >>)

set_cooling_activation_temp(temperature_celsius) ==
    IF ~(0 <= temperature_celsius /\ temperature_celsius <= 30)
    THEN Raise("ValueError",
               "Activation temperature must be between 0 and 30 degrees Celsius.")
    ELSE LET param_id        == 161
             temperature_hex == FormatX(temperature_celsius * 2, 2)
             prefix  == "0000" \o FormatX(param_id, 2) \o "000F000000" \o temperature_hex
             suffix  == "000000000000003C000000010001"
             payload == prefix \o suffix
         IN  Return(<< "W --- " \o remote \o " " \o wtw \o " --:------ "
                       \o "2411 023 " \o payload >>)

\* faulty variant of set_min_fan_speed_during_bypass: the value is formatted with two digits, as in the other setters
set_min_fan_speed_during_bypass_two_digits(speed_percentage) ==
    IF ~(0 <= speed_percentage /\ speed_percentage <= 100)
    THEN Raise("ValueError",
               "Speed percentage for minimum fan speed during bypass must be between 0 and 100.")
    ELSE LET hex_speed == FormatX(speed_percentage * 10, 2)
             payload   == "00007900110000" \o hex_speed \o "00000000000003E8000000010032"
         IN  Return(<< "W --- " \o remote \o " " \o wtw \o " --:------ "
                       \o "2411 023 " \o payload >>)

set_min_fan_speed_during_bypass(speed_percentage) ==
    IF ~(0 <= speed_percentage /\ speed_percentage <= 100)
    THEN Raise("ValueError",
               "Speed percentage for minimum fan speed during bypass must be between 0 and 100.")
    ELSE LET hex_speed == FormatX(speed_percentage * 10, 4)
             payload   == "00007900110000" \o hex_speed \o "00000000000003E8000000010032"
         IN  Return(<< "W --- " \o remote \o " " \o wtw \o " --:------ "
                       \o "2411 023 " \o payload >>)

set_bypass_fan_speed_regulation(setting) ==
    IF setting \notin {3, 4}
    THEN Raise("ValueError",
               "Regulation setting for parameter 17 must be 3 (medium) or 4 (high).")
    ELSE LET payload == IF setting = 3
                        THEN "0000E70000000000030000000300000005000000010000"
                        ELSE "0000E70000000000040000000300000005000000010000"
         IN  Return(<< "W --- " \o remote \o " " \o wtw \o " --:------ "
                       \o "2411 023 " \o payload >>)

set_bypass_fan_speed_setting(setting) ==
    IF setting \notin {0, 1}
    THEN Raise("ValueError",
               "Bypass fan speed setting for parameter 18 must be 0 or 1.")
    ELSE LET payload == IF setting = 0
                        THEN "0000E80000000000000000000000000001000000010000"
                        ELSE "0000E80000000000010000000000000001000000010000"
         IN  Return(<< "W --- " \o remote \o " " \o wtw \o " --:------ "
                       \o "2411 023 " \o payload >>)

(***************************************************************************)
(* The state machine.  An instance is constructed once; its caller then    *)
(* invokes one public operation at a time (the Call actions), and hands    *)
(* the frames on or handles the exception (HandOff) before the next call.  *)
(* op and arg record the call whose outcome is in result.                  *)
(***************************************************************************)
\* (remote_address, wtw_address) pairs given to the constructor
AddressPairs == { <<"37:111111", "32:222222">>, <<"37:1111111", "32:2222222">> }

\* capacity_in_m3_per_hour as given to the constructor; <<>> when omitted
CapacityArgs == { <<>>, <<0>>, <<100>>, <<400>> }

\* level names handed to set_fan_speed
LevelNames == {"low", "LOW", "Low", "medium", "MEDIUM", "high", "High", "auto", ""}

IntArgs == (-NegArgs)..MaxArg

FlowArgs == (-NegArgs)..MaxFlow

\* the comfort temperature n/100 as the interpreter reads the decimal literal
TempArgs == (-NegArgs)..MaxTemp

TempLiteral(n) == FloatDiv(n, 100)

\* parameter numbers handed to _fan_speed_payload
ParamArgs == (-NegArgs)..MaxParam

OrconRamsesRFCommand(remote_address, wtw_address, capacity_arg) ==
    /\ remote = remote_address
    /\ wtw = wtw_address
    /\ capacity_in_m3_per_hour =
           (IF capacity_arg = <<>> THEN 400 ELSE capacity_arg[1])
    /\ ctor_capacity = capacity_arg

config == <<remote, wtw, capacity_in_m3_per_hour, ctor_capacity>>

\* History of an instance (variable first_call): the fields as the constructor
\* set them and the first call among Remembered with its outcome; others
\* tells whether a different call was made since.  Under Spec no history
\* is kept.
NoHistory ==
    [kind |-> "off", fields |-> <<>>, op |-> "", arg |-> <<>>,
     result |-> NoResult, others |-> FALSE]

\* the calls whose first outcome is remembered
Remembered ==
    { <<"set_fan_speed", <<"low", 104>>>>,
      <<"set_fan_speed", <<"auto", 3>>>>,
      <<"set_comfort_temperature", <<2010>>>>,
      <<"set_filter_replacement_time", <<91>>>>,
      <<"set_to_low_mode", <<>>>> }

Remember(name, args, outcome) ==
    IF first_call.kind = "none" /\ <<name, args>> \in Remembered
    THEN [first_call EXCEPT !.kind = "call", !.op = name, !.arg = args,
                       !.result = outcome]
    ELSE IF first_call.kind = "call" /\ <<name, args>> # <<first_call.op, first_call.arg>>
    THEN [first_call EXCEPT !.others = TRUE]
    ELSE first_call

\* the variables of main (src/main.py) and of its MQTT client
main_vars == <<pc, commands, next_cmd, client_calls, connect_calls,
               disconnect_calls, pending, on_connect_rc>>

\* on_connect_rc before the on_connect callback has run
NotCalled == -1

\* main is not running
MainNotStarted ==
    /\ pc = "not_started"
    /\ commands = <<>>
    /\ next_cmd = 0
    /\ client_calls = <<>>
    /\ connect_calls = 0
    /\ disconnect_calls = 0
    /\ pending = ""
    /\ on_connect_rc = NotCalled

Init ==
    /\ \E a \in AddressPairs, c \in CapacityArgs : OrconRamsesRFCommand(a[1], a[2], c)
    /\ op = "idle"
    /\ arg = <<>>
    /\ result = NoResult
    /\ first_call = NoHistory
    /\ MainNotStarted

HistoryInit ==
    /\ \E c \in CapacityArgs : OrconRamsesRFCommand("37:1111111", "32:2222222", c)
    /\ op = "idle"
    /\ arg = <<>>
    /\ result = NoResult
    /\ first_call = [NoHistory EXCEPT !.kind = "none", !.fields = config]
    /\ MainNotStarted

\* faulty variant of Call: set_fan_speed keeps the flow rate as the capacity
Call_keeping_flow(name, args, outcome) ==
    /\ op' = name
    /\ arg' = args
    /\ result' = outcome
    /\ first_call' = Remember(name, args, outcome)
    /\ capacity_in_m3_per_hour' =
           (IF name = "set_fan_speed" THEN args[2] ELSE capacity_in_m3_per_hour)
    /\ UNCHANGED <<remote, wtw, ctor_capacity>>
    /\ UNCHANGED main_vars

\* the outcome of a call becomes visible to the caller; no operation assigns
\* a field of the instance
Call(name, args, outcome) ==
    /\ op' = name
    /\ arg' = args
    /\ result' = outcome
    /\ first_call' = Remember(name, args, outcome)
    /\ UNCHANGED config
    /\ UNCHANGED main_vars

Call_set_fan_speed ==
    /\ op = "idle"
    /\ \E level_name \in LevelNames, m3_per_hour \in FlowArgs :
        Call("set_fan_speed", <<level_name, m3_per_hour>>,
             set_fan_speed(level_name, m3_per_hour))

\* a direct call of the helper; its frame is recorded as a one-frame list,
\* like the outcome of the public operations
Call__fan_speed_payload ==
    /\ op = "idle"
    /\ \E param \in ParamArgs, speed_percentage \in IntArgs :
        LET r == _fan_speed_payload(param, speed_percentage)
        IN  Call("_fan_speed_payload", <<param, speed_percentage>>,
                 IF r.kind = "return" THEN Return(<<r.value>>) ELSE r)

Call_turn_fan_off == op = "idle" /\ Call("turn_fan_off", <<>>, turn_fan_off)

Call_set_to_low_mode == op = "idle" /\ Call("set_to_low_mode", <<>>, set_to_low_mode)

Call_set_to_medium_mode == op = "idle" /\ Call("set_to_medium_mode", <<>>, set_to_medium_mode)

Call_set_to_high_mode == op = "idle" /\ Call("set_to_high_mode", <<>>, set_to_high_mode)

Call_set_to_auto_mode == op = "idle" /\ Call("set_to_auto_mode", <<>>, set_to_auto_mode)

Call_set_to_auto2_mode == op = "idle" /\ Call("set_to_auto2_mode", <<>>, set_to_auto2_mode)

Call_set_to_boost_mode == op = "idle" /\ Call("set_to_boost_mode", <<>>, set_to_boost_mode)

Call_disable_mode == op = "idle" /\ Call("disable_mode", <<>>, disable_mode)

Call_open_bypass == op = "idle" /\ Call("open_bypass", <<>>, open_bypass)

Call_close_bypass == op = "idle" /\ Call("close_bypass", <<>>, close_bypass)

Call_automatic_bypass == op = "idle" /\ Call("automatic_bypass", <<>>, automatic_bypass)

Call_set_absence_supply_fan_speed ==
    op = "idle" /\ \E v \in IntArgs : Call("set_absence_supply_fan_speed", <<v>>, set_absence_supply_fan_speed(v))

Call_set_absence_exhaust_fan_speed ==
    op = "idle" /\ \E v \in IntArgs : Call("set_absence_exhaust_fan_speed", <<v>>, set_absence_exhaust_fan_speed(v))

Call_set_boost_mode_speed ==
    op = "idle" /\ \E v \in IntArgs : Call("set_boost_mode_speed", <<v>>, set_boost_mode_speed(v))

Call_set_filter_replacement_time ==
    op = "idle" /\ \E v \in IntArgs : Call("set_filter_replacement_time", <<v>>, set_filter_replacement_time(v))

Call_set_sensor_sensitivity ==
    op = "idle" /\ \E v \in IntArgs : Call("set_sensor_sensitivity", <<v>>, set_sensor_sensitivity(v))

Call_set_humidity_scenario ==
    op = "idle" /\ \E v \in IntArgs : Call("set_humidity_scenario", <<v>>, set_humidity_scenario(v))

Call_set_humidity_scenario_runtime ==
    op = "idle" /\ \E v \in IntArgs : Call("set_humidity_scenario_runtime", <<v>>, set_humidity_scenario_runtime(v))

Call_set_cooling_activation_temp ==
    op = "idle" /\ \E v \in IntArgs : Call("set_cooling_activation_temp", <<v>>, set_cooling_activation_temp(v))

Call_set_min_fan_speed_during_bypass ==
    op = "idle" /\ \E v \in IntArgs : Call("set_min_fan_speed_during_bypass", <<v>>, set_min_fan_speed_during_bypass(v))

Call_set_bypass_fan_speed_regulation ==
    op = "idle" /\ \E v \in IntArgs : Call("set_bypass_fan_speed_regulation", <<v>>, set_bypass_fan_speed_regulation(v))

Call_set_bypass_fan_speed_setting ==
    op = "idle" /\ \E v \in IntArgs : Call("set_bypass_fan_speed_setting", <<v>>, set_bypass_fan_speed_setting(v))

\* arg records the numerator n of the literal n/100
Call_set_comfort_temperature ==
    /\ op = "idle"
    /\ \E n \in TempArgs :
        Call("set_comfort_temperature", <<n>>, set_comfort_temperature(TempLiteral(n)))

\* the caller is done with the outcome of the last call
HandOff ==
    /\ op # "idle"
    /\ op' = "idle"
    /\ arg' = <<>>
    /\ result' = NoResult
    /\ UNCHANGED <<config, first_call>>
    /\ UNCHANGED main_vars

Next ==
    \/ Call_set_fan_speed
    \/ Call__fan_speed_payload
    \/ Call_turn_fan_off
    \/ Call_set_to_low_mode
    \/ Call_set_to_medium_mode
    \/ Call_set_to_high_mode
    \/ Call_set_to_auto_mode
    \/ Call_set_to_auto2_mode
    \/ Call_set_to_boost_mode
    \/ Call_disable_mode
    \/ Call_open_bypass
    \/ Call_close_bypass
    \/ Call_automatic_bypass
    \/ Call_set_absence_supply_fan_speed
    \/ Call_set_absence_exhaust_fan_speed
    \/ Call_set_boost_mode_speed
    \/ Call_set_filter_replacement_time
    \/ Call_set_sensor_sensitivity
    \/ Call_set_humidity_scenario
    \/ Call_set_humidity_scenario_runtime
    \/ Call_set_cooling_activation_temp
    \/ Call_set_min_fan_speed_during_bypass
    \/ Call_set_bypass_fan_speed_regulation
    \/ Call_set_bypass_fan_speed_setting
    \/ Call_set_comfort_temperature
    \/ HandOff

Spec == Init /\ [][Next]_vars

\* the same operations, with the history of the instance kept
HistorySpec == HistoryInit /\ [][Next]_vars

(***************************************************************************)
(* main (src/main.py) and MQTTClient (src/mqtt_client.py).  main builds    *)
(* an encoder and a client, then inside try/finally connects, waits,       *)
(* builds the commands and publishes them one by one; the finally clause   *)
(* disconnects.  The paho client is outside the repository: each of its    *)
(* calls either returns or raises, and publish returns a result code.      *)
(* client_calls lists the calls made on the paho client, pending is the    *)
(* exception that is propagating (none when empty).                        *)
(***************************************************************************)
\* outcomes of paho's publish: rc = MQTT_ERR_SUCCESS, another rc, an exception
PublishOutcomes == {"success", "rc_error", "raise"}

ClientCall(name, payload, outcome) ==
    [call |-> name, payload |-> payload, outcome |-> outcome]

\* json.dumps({"msg": command}) for a command of plain ASCII text without
\* quotes or backslashes
JsonDumps(command) == "{\"msg\": \"" \o command \o "\"}"

\* main, lines 17-24: the encoder and the MQTT client are constructed
MainInit ==
    /\ OrconRamsesRFCommand("37:1111111", "32:2222222", <<400>>)
    /\ op = "idle"
    /\ arg = <<>>
    /\ result = NoResult
    /\ first_call = NoHistory
    /\ pc = "connect"
    /\ commands = <<>>
    /\ next_cmd = 0
    /\ client_calls = <<>>
    /\ connect_calls = 0
    /\ disconnect_calls = 0
    /\ pending = ""
    /\ on_connect_rc = NotCalled

encoder_vars == <<config, op, arg, result, first_call>>

\* faulty variant of RaiseInTry: the try statement has no finally clause
RaiseInTry_without_finally(e) ==
    /\ pending' = e
    /\ pc' = "done"

\* an exception leaves the try block of main: the finally clause runs next
RaiseInTry(e) ==
    /\ pending' = e
    /\ pc' = "finally"

\* mqtt_client.connect(): client.connect raises (logged and re-raised), or
\* it returns and the network loop is started
main_connect ==
    /\ pc = "connect"
    /\ connect_calls' = connect_calls + 1
    /\ \/ /\ client_calls' = client_calls \o << ClientCall("connect", "", "raise") >>
          /\ RaiseInTry("ConnectionError")
       \/ /\ client_calls' = client_calls
                  \o << ClientCall("connect", "", "success"),
                        ClientCall("loop_start", "", "success") >>
          /\ pc' = "sleep"
          /\ UNCHANGED pending
    /\ UNCHANGED <<encoder_vars, on_connect_rc, commands, next_cmd, disconnect_calls>>

\* time.sleep(1) after the connect
main_sleep ==
    /\ pc = "sleep"
    /\ pc' = "build"
    /\ UNCHANGED <<encoder_vars, on_connect_rc, commands, next_cmd, client_calls, connect_calls,
                   disconnect_calls, pending>>

\* commands = orcon.set_fan_speed("low", 104); commands += orcon.set_to_low_mode()
main_build ==
    /\ pc = "build"
    /\ LET fan == set_fan_speed("low", 104)
       IN  IF fan.kind = "raise"
           THEN /\ RaiseInTry(fan.exc)
                /\ UNCHANGED <<commands, next_cmd>>
           ELSE /\ commands' = fan.value \o set_to_low_mode.value
                /\ next_cmd' = 1
                /\ pc' = "publish"
                /\ UNCHANGED pending
    /\ UNCHANGED <<encoder_vars, on_connect_rc, client_calls, connect_calls, disconnect_calls>>

\* faulty variant of main_publish: a result code other than success is raised
\* as an exception
main_publish_raising_on_rc ==
    /\ pc = "publish"
    /\ next_cmd <= Len(commands)
    /\ \E outcome \in PublishOutcomes :
          /\ client_calls' = client_calls
                  \o << ClientCall("publish", JsonDumps(commands[next_cmd]), outcome) >>
          /\ IF outcome # "success"
             THEN RaiseInTry("PublishError")
             ELSE pc' = "pause" /\ UNCHANGED pending
    /\ UNCHANGED <<encoder_vars, on_connect_rc, commands, next_cmd, connect_calls, disconnect_calls>>

\* one turn of the loop: mqtt_client.publish_command(cmd) wraps the command
\* and publishes it once; a result code other than success is only logged,
\* an exception is logged and re-raised
main_publish ==
    /\ pc = "publish"
    /\ next_cmd <= Len(commands)
    /\ \E outcome \in PublishOutcomes :
          /\ client_calls' = client_calls
                  \o << ClientCall("publish", JsonDumps(commands[next_cmd]), outcome) >>
          /\ IF outcome = "raise"
             THEN RaiseInTry("PublishError")
             ELSE pc' = "pause" /\ UNCHANGED pending
    /\ UNCHANGED <<encoder_vars, on_connect_rc, commands, next_cmd, connect_calls, disconnect_calls>>

\* time.sleep(1) at the end of a turn of the loop
main_pause ==
    /\ pc = "pause"
    /\ pc' = "publish"
    /\ next_cmd' = next_cmd + 1
    /\ UNCHANGED <<encoder_vars, on_connect_rc, commands, client_calls, connect_calls,
                   disconnect_calls, pending>>

\* the loop is exhausted: the try block ends normally
main_loop_end ==
    /\ pc = "publish"
    /\ next_cmd > Len(commands)
    /\ pc' = "finally"
    /\ UNCHANGED <<encoder_vars, on_connect_rc, commands, next_cmd, client_calls, connect_calls,
                   disconnect_calls, pending>>

\* finally: mqtt_client.disconnect() stops the loop and disconnects; an
\* exception of the paho client here replaces the pending one
main_disconnect ==
    /\ pc = "finally"
    /\ disconnect_calls' = disconnect_calls + 1
    /\ \/ /\ client_calls' = client_calls
                  \o << ClientCall("loop_stop", "", "success"),
                        ClientCall("disconnect", "", "success") >>
          /\ UNCHANGED pending
       \/ /\ client_calls' = client_calls
                  \o << ClientCall("loop_stop", "", "success"),
                        ClientCall("disconnect", "", "raise") >>
          /\ pending' = "DisconnectError"
    /\ pc' = "done"
    /\ UNCHANGED <<encoder_vars, on_connect_rc, commands, next_cmd, connect_calls>>

\* result codes the broker's CONNACK can carry: accepted, or refused (1..5)
ConnackCodes == 0..5

LoopRunning ==
    /\ \E i \in 1..Len(client_calls) : client_calls[i].call = "loop_start"
    /\ \A i \in 1..Len(client_calls) : client_calls[i].call # "loop_stop"

\* MQTTClient.on_connect, called by the network loop of the paho client when
\* the broker answers the connect: it logs the result code and nothing else
on_connect ==
    /\ LoopRunning
    /\ on_connect_rc = NotCalled
    /\ \E rc \in ConnackCodes : on_connect_rc' = rc
    /\ UNCHANGED <<encoder_vars, pc, commands, next_cmd, client_calls,
                   connect_calls, disconnect_calls, pending>>

MainNext ==
    \/ main_connect
    \/ on_connect
    \/ main_sleep
    \/ main_build
    \/ main_publish
    \/ main_pause
    \/ main_loop_end
    \/ main_disconnect

MainSpec == MainInit /\ [][MainNext]_vars

TypeOK ==
    /\ MainNotStarted
    /\ <<remote, wtw>> \in AddressPairs
    /\ capacity_in_m3_per_hour \in {0, 100, 400}
    /\ result.kind \in {"none", "return", "raise"}
    /\ (op = "idle") = (result.kind = "none")

(***************************************************************************)
(* Reading a frame back: the space-separated fields of the frame text.     *)
(***************************************************************************)
SpacePositions(s) == {i \in 1..Len(s) : Char(s, i) = " "}

Fields(s) ==
    LET sp == SpacePositions(s)
        n  == Cardinality(sp)
        cut(k) == IF k = 0 THEN 0
                  ELSE IF k = n + 1 THEN Len(s) + 1
                  ELSE CHOOSE q \in sp : Cardinality({r \in sp : r < q}) = k - 1
    IN  [k \in 1..(n + 1) |-> SubSeq(s, cut(k - 1) + 1, cut(k) - 1)]

HexChars == {"0", "1", "2", "3", "4", "5", "6", "7", "8", "9",
             "A", "B", "C", "D", "E", "F"}

IsUpperHex(s) == \A i \in 1..Len(s) : Char(s, i) \in HexChars

DecChar(d) == Char("0123456789", d + 1)

\* n as three decimal digits
Dec3(n) == DecChar(n \div 100) \o DecChar((n \div 10) % 10) \o DecChar(n % 10)

\* the frames the last call returned (none when it raised)
Frames == IF result.kind = "return" THEN result.value ELSE <<>>

Verb(frame) == Fields(frame)[1]

Code(frame) == Fields(frame)[6]

LenField(frame) == Fields(frame)[7]

Payload(frame) == Fields(frame)[8]

\* payload characters 5-6: the parameter id byte of a 2411 payload
ParamIdByte(frame) == SubSeq(Payload(frame), 5, 6)

ModeOps == {"turn_fan_off", "set_to_low_mode", "set_to_medium_mode",
            "set_to_high_mode", "set_to_auto_mode", "set_to_auto2_mode",
            "set_to_boost_mode", "disable_mode"}

BypassOps == {"open_bypass", "close_bypass", "automatic_bypass"}

\* the level a sample name stands for, read off the name itself
LevelOf(name) ==
    IF name \in {"low", "LOW", "Low"} THEN "low"
    ELSE IF name \in {"medium", "MEDIUM"} THEN "medium"
    ELSE IF name \in {"high", "High"} THEN "high"
    ELSE "invalid"

LevelMsg == "level_name must be 'low/medium/high."

RangeMsg == "Speed percentage must be between 1 and 100."

(***************************************************************************)
(* C1: every frame any operation returns reads                             *)
(* "<verb> --- <remote> <wtw> --:------ <code> <len> <payload>", with the  *)
(* configured remote as source and the configured wtw as destination, and  *)
(* <len> is the 3-digit decimal of half the number of payload characters.  *)
(***************************************************************************)
C1_FrameLayout ==
    \A i \in 1..Len(Frames) :
        LET f == Fields(Frames[i])
        IN  /\ Len(f) = 8
            /\ f[1] \in {"I", "W"}
            /\ f[2] = "---"
            /\ f[3] = remote
            /\ f[4] = wtw
            /\ f[5] = "--:------"
            /\ f[6] \in {"2411", "22F1", "22F7"}
            /\ Len(f[8]) > 0
            /\ Len(f[8]) % 2 = 0
            /\ IsUpperHex(f[8])
            /\ f[7] = Dec3(Len(f[8]) \div 2)

C1_Witness ==
    /\ op = "set_fan_speed"
    /\ arg = <<"low", 104>>
    /\ Len(Frames) = 2
    /\ remote = "37:1111111"

\* accepted domain of each integer-valued setter (spec table, rows 1-2, 9-18)
Domain(name) ==
    CASE name = "set_absence_supply_fan_speed"    -> 0..40
      [] name = "set_absence_exhaust_fan_speed"   -> 0..40
      [] name = "set_boost_mode_speed"            -> 0..100
      [] name = "set_filter_replacement_time"     -> {90, 120, 150, 180}
      [] name = "set_humidity_scenario"           -> {0, 1}
      [] name = "set_sensor_sensitivity"          -> 0..15
      [] name = "set_humidity_scenario_runtime"   -> 15..60
      [] name = "set_cooling_activation_temp"     -> 0..30
      [] name = "set_min_fan_speed_during_bypass" -> 0..100
      [] name = "set_bypass_fan_speed_regulation" -> {3, 4}
      [] name = "set_bypass_fan_speed_setting"    -> {0, 1}

IntSetters == {"set_absence_supply_fan_speed", "set_absence_exhaust_fan_speed",
               "set_boost_mode_speed", "set_filter_replacement_time",
               "set_humidity_scenario", "set_sensor_sensitivity",
               "set_humidity_scenario_runtime", "set_cooling_activation_temp",
               "set_min_fan_speed_during_bypass",
               "set_bypass_fan_speed_regulation", "set_bypass_fan_speed_setting"}

(***************************************************************************)
(* C2: every 2411 frame carries exactly 46 uppercase hex characters, and   *)
(* every value inside a parameter's accepted domain yields such a frame.   *)
(***************************************************************************)
C2_PayloadIs23Bytes ==
    /\ \A i \in 1..Len(Frames) :
           Code(Frames[i]) = "2411" =>
               /\ Len(Payload(Frames[i])) = 46
               /\ IsUpperHex(Payload(Frames[i]))
    /\ (op \in IntSetters /\ arg[1] \in Domain(op)) =>
           (Len(Frames) = 1 /\ Code(Frames[1]) = "2411")
    /\ (op = "set_comfort_temperature" /\ arg[1] \in 0..3000) =>
           (Len(Frames) = 1 /\ Code(Frames[1]) = "2411")
    /\ (op = "set_fan_speed" /\ Len(Frames) > 0) =>
           \A i \in 1..Len(Frames) : Code(Frames[i]) = "2411"

C2_Witness ==
    /\ op = "set_min_fan_speed_during_bypass"
    /\ arg = <<100>>
    /\ Len(Frames) = 1
    /\ Len(Payload(Frames[1])) = 46

SupplyParam(level) ==
    CASE level = "low" -> 3 [] level = "medium" -> 5 [] level = "high" -> 7

\* a 2411 fan-speed frame of parameter par with the value byte val
IsFanSpeedFrame(frame, par, val) ==
    /\ Verb(frame) = "W"
    /\ Code(frame) = "2411"
    /\ LenField(frame) = "023"
    /\ Len(Payload(frame)) = 46
    /\ ParamIdByte(frame) = HexChar((60 + par) \div 16) \o HexChar((60 + par) % 16)
    /\ SubSeq(Payload(frame), 17, 18) = HexChar(val \div 16) \o HexChar(val % 16)

(***************************************************************************)
(* C3: with a level low/medium/high and a computed percentage p in 1..100, *)
(* set_fan_speed returns exactly two W 2411 frames of 23 bytes, supply     *)
(* first (parameter 3/5/7), exhaust second (parameter 4/6/8), both with    *)
(* the value 2*p; with any other input it returns no frame.                *)
(***************************************************************************)
C3_TwoFramesSupplyThenExhaust ==
    op = "set_fan_speed" =>
        LET level == LevelOf(arg[1])
            pct   == _calculate_percentage_from_m3_per_hour(arg[2])
        IN  IF level # "invalid" /\ pct.kind = "return" /\ pct.value \in 1..100
            THEN /\ result.kind = "return"
                 /\ Len(result.value) = 2
                 /\ IsFanSpeedFrame(result.value[1], SupplyParam(level), 2 * pct.value)
                 /\ IsFanSpeedFrame(result.value[2], SupplyParam(level) + 1, 2 * pct.value)
            ELSE /\ result.kind = "raise"
                 /\ result.value = <<>>

C3_Witness ==
    /\ op = "set_fan_speed"
    /\ arg = <<"MEDIUM", 200>>
    /\ capacity_in_m3_per_hour = 400
    /\ Len(Frames) = 2
    /\ ParamIdByte(Frames[1]) = "41"
    /\ ParamIdByte(Frames[2]) = "42"

Hex2(n) == HexChar(n \div 16) \o HexChar(n % 16)

Hex4(n) == Hex2(n \div 256) \o Hex2(n % 256)

\* payload characters 17-18: the value byte of a 2-digit 2411 payload
ValueByte(frame) == SubSeq(Payload(frame), 17, 18)

(***************************************************************************)
(* C4: the percentage set_fan_speed encodes is floor(flowRate / capacity * *)
(* 100) for every flow rate and positive capacity; the capacity is 400     *)
(* when the constructor is not given one (400 and 104 give 26, byte 34).   *)
(***************************************************************************)
C4_PercentageIsFloor ==
    /\ ctor_capacity = <<>> => capacity_in_m3_per_hour = 400
    /\ (op = "set_fan_speed" /\ LevelOf(arg[1]) # "invalid"
                             /\ capacity_in_m3_per_hour > 0) =>
           LET p == (arg[2] * 100) \div capacity_in_m3_per_hour
           IN  IF p \in 1..100
               THEN /\ Len(Frames) = 2
                    /\ ValueByte(Frames[1]) = Hex2(2 * p)
                    /\ ValueByte(Frames[2]) = Hex2(2 * p)
               ELSE result.kind = "raise"

AbsenceAcceptsZero ==
    (op \in {"set_absence_supply_fan_speed", "set_absence_exhaust_fan_speed"}
        /\ arg = <<0>>) =>
            /\ Len(Frames) = 1
            /\ Verb(Frames[1]) = "W"
            /\ Code(Frames[1]) = "2411"
            /\ ValueByte(Frames[1]) = "00"

(***************************************************************************)
(* C5 (as stated): set_fan_speed with a valid level fails with the         *)
(* out-of-range error and no frame when the computed percentage is outside *)
(* 1..100, and also whenever the flow is greater than the capacity; the    *)
(* absence-mode setters accept 0 and return one frame with value byte 00.  *)
(***************************************************************************)
C5_FlowAboveCapacityRaises ==
    /\ op = "set_fan_speed" /\ LevelOf(arg[1]) # "invalid" =>
           LET pct == _calculate_percentage_from_m3_per_hour(arg[2])
           IN  (pct.kind = "return"
                  /\ (pct.value \notin 1..100 \/ arg[2] > capacity_in_m3_per_hour)) =>
                       result = Raise("ValueError", RangeMsg)
    /\ AbsenceAcceptsZero

(***************************************************************************)
(* C5 (amended): set_fan_speed with a valid level fails with the           *)
(* out-of-range error and no frame exactly when the computed percentage is *)
(* outside 1..100 (a flow above the capacity whose percentage is still 100 *)
(* is accepted); the absence-mode setters accept 0 and return one frame    *)
(* with value byte 00.                                                     *)
(***************************************************************************)
C5_PercentageOutside1To100Raises ==
    /\ op = "set_fan_speed" /\ LevelOf(arg[1]) # "invalid" =>
           LET pct == _calculate_percentage_from_m3_per_hour(arg[2])
           IN  pct.kind = "return" =>
                   IF pct.value \notin 1..100
                   THEN result = Raise("ValueError", RangeMsg)
                   ELSE Len(Frames) = 2
    /\ AbsenceAcceptsZero

C5_Witness ==
    /\ op = "set_fan_speed"
    /\ arg = <<"low", 3>>
    /\ capacity_in_m3_per_hour = 400
    /\ result = Raise("ValueError", RangeMsg)

(***************************************************************************)
(* C6: set_fan_speed matches the level name case-insensitively (LOW, Low   *)
(* and low give identical frames), and any name that is not low, medium or *)
(* high after lower-casing fails with the invalid-level error, which is    *)
(* not the out-of-range error of a bad flow rate.                          *)
(***************************************************************************)
C6_LevelNames ==
    op = "set_fan_speed" =>
        /\ LevelOf(arg[1]) = "invalid" => result = Raise("ValueError", LevelMsg)
        /\ LevelOf(arg[1]) # "invalid" => result = set_fan_speed(LevelOf(arg[1]), arg[2])
        /\ LevelMsg # RangeMsg

(***************************************************************************)
(* C7: set_comfort_temperature accepts exactly 0.0..30.0 and encodes the   *)
(* temperature in hundredths of a degree as four hex digits after the      *)
(* prefix 00007500920000 (20.1 gives 07DA, 30.0 gives 0BB8); outside the   *)
(* range it fails and returns no frame.  arg[1] is the numerator n of the  *)
(* decimal literal n/100, so the hundredths of the input are n.            *)
(***************************************************************************)
C7_ComfortTemperatureEncoding ==
    op = "set_comfort_temperature" =>
        IF arg[1] \in 0..3000
        THEN /\ Len(Frames) = 1
             /\ Frames[1] = "W --- " \o remote \o " " \o wtw \o " --:------ 2411 023 "
                            \o "00007500920000" \o Hex4(arg[1])
                            \o "0000000000000BB8000000010001"
        ELSE /\ result.kind = "raise"
             /\ result.value = <<>>

DiscreteSetters == {"set_filter_replacement_time", "set_humidity_scenario",
                    "set_bypass_fan_speed_regulation", "set_bypass_fan_speed_setting"}

\* the captured traffic listed in the docstrings of the four setters
CapturedPayload(name, v) ==
    CASE name = "set_filter_replacement_time" ->
             "0000310010000000" \o Hex2(v) \o "00000000000007080000001E002C"
      [] name = "set_humidity_scenario" ->
             "00004E0000000000" \o Hex2(v) \o "0000000000000001000000010000"
      [] name = "set_bypass_fan_speed_regulation" ->
             "0000E70000000000" \o Hex2(v) \o "0000000300000005000000010000"
      [] name = "set_bypass_fan_speed_setting" ->
             "0000E80000000000" \o Hex2(v) \o "0000000000000001000000010000"

(***************************************************************************)
(* C8: each discrete-domain setter maps every allowed input to one fixed   *)
(* 46-character payload, different allowed inputs to different payloads,   *)
(* and fails without a frame on every other integer.                       *)
(***************************************************************************)
C8_DiscreteSetters ==
    /\ op \in DiscreteSetters =>
           IF arg[1] \in Domain(op)
           THEN /\ Len(Frames) = 1
                /\ Payload(Frames[1]) = CapturedPayload(op, arg[1])
                /\ Len(Payload(Frames[1])) = 46
           ELSE /\ result.kind = "raise"
                /\ result.value = <<>>
    /\ \A a, b \in {90, 120, 150, 180} :
           a # b => set_filter_replacement_time(a) # set_filter_replacement_time(b)
    /\ set_humidity_scenario(0) # set_humidity_scenario(1)
    /\ set_bypass_fan_speed_regulation(3) # set_bypass_fan_speed_regulation(4)
    /\ set_bypass_fan_speed_setting(0) # set_bypass_fan_speed_setting(1)

C8_Witness ==
    /\ op = "set_filter_replacement_time"
    /\ arg = <<120>>
    /\ Len(Frames) = 1
    /\ ValueByte(Frames[1]) = "78"

ModePayloads ==
    { Payload(r.value[1]) :
        r \in {turn_fan_off, set_to_low_mode, set_to_medium_mode, set_to_high_mode,
               set_to_auto_mode, set_to_auto2_mode, set_to_boost_mode, disable_mode} }

(***************************************************************************)
(* C9: each of the eight mode selectors returns exactly one frame          *)
(* "I --- <remote> <wtw> --:------ 22F1 003 <3 bytes>", no two selectors   *)
(* share a payload, and with 37:111111 and 32:222222 the low-mode frame is *)
(* "I --- 37:111111 32:222222 --:------ 22F1 003 000104".                  *)
(***************************************************************************)
C9_ModeSelectors ==
    /\ op \in ModeOps =>
           /\ Len(Frames) = 1
           /\ Len(Payload(Frames[1])) = 6
           /\ IsUpperHex(Payload(Frames[1]))
           /\ Frames[1] = "I --- " \o remote \o " " \o wtw \o " --:------ 22F1 003 "
                          \o Payload(Frames[1])
    /\ Cardinality(ModePayloads) = 8
    /\ (op = "set_to_low_mode" /\ remote = "37:111111" /\ wtw = "32:222222") =>
           Frames = << "I --- 37:111111 32:222222 --:------ 22F1 003 000104" >>

C9_Witness ==
    /\ op = "set_to_low_mode"
    /\ remote = "37:111111"
    /\ wtw = "32:222222"
    /\ Len(Frames) = 1

BypassFrame(payload) ==
    "W --- " \o remote \o " " \o wtw \o " --:------ 22F7 003 " \o payload

(***************************************************************************)
(* C10: open_bypass, close_bypass and automatic_bypass each return exactly *)
(* one frame "W --- <remote> <wtw> --:------ 22F7 003 <payload>" with the  *)
(* payloads 00C8EF, 0000EF and 00FFEF; every mode frame has verb I and     *)
(* every parameter-write and bypass frame has verb W.                      *)
(***************************************************************************)
C10_BypassAndVerbs ==
    /\ op = "open_bypass" => Frames = << BypassFrame("00C8EF") >>
    /\ op = "close_bypass" => Frames = << BypassFrame("0000EF") >>
    /\ op = "automatic_bypass" => Frames = << BypassFrame("00FFEF") >>
    /\ \A i \in 1..Len(Frames) :
           /\ op \in ModeOps => (Verb(Frames[i]) = "I" /\ Code(Frames[i]) = "22F1")
           /\ op \in BypassOps => (Verb(Frames[i]) = "W" /\ Code(Frames[i]) = "22F7")
           /\ op \notin ModeOps \cup BypassOps =>
                  (Verb(Frames[i]) = "W" /\ Code(Frames[i]) = "2411")

C10_Witness ==
    /\ op = "automatic_bypass"
    /\ Len(Frames) = 1
    /\ Payload(Frames[1]) = "00FFEF"

\* the rows of the encoding table for the range-domain setters with an
\* integer argument: parameter id byte, scale, hex width and domain
RangeTable ==
    "set_absence_supply_fan_speed"    :> [id |-> "3D", scale |-> 2,  width |-> 2, lo |-> 0,  hi |-> 40]  @@
    "set_absence_exhaust_fan_speed"   :> [id |-> "3E", scale |-> 2,  width |-> 2, lo |-> 0,  hi |-> 40]  @@
    "set_boost_mode_speed"            :> [id |-> "95", scale |-> 2,  width |-> 2, lo |-> 0,  hi |-> 100] @@
    "set_sensor_sensitivity"          :> [id |-> "52", scale |-> 12, width |-> 2, lo |-> 0,  hi |-> 15]  @@
    "set_humidity_scenario_runtime"   :> [id |-> "54", scale |-> 1,  width |-> 2, lo |-> 15, hi |-> 60]  @@
    "set_cooling_activation_temp"     :> [id |-> "A1", scale |-> 2,  width |-> 2, lo |-> 0,  hi |-> 30]  @@
    "set_min_fan_speed_during_bypass" :> [id |-> "79", scale |-> 10, width |-> 4, lo |-> 0,  hi |-> 100]

RangeSetters == DOMAIN RangeTable

\* the value field of a 2411 payload: it ends at payload character 18 and
\* is width characters long
ValueField(frame, width) == SubSeq(Payload(frame), 19 - width, 18)

C12_OutOfRangeRaises ==
    /\ (op \in RangeSetters /\ arg[1] \notin RangeTable[op].lo..RangeTable[op].hi) =>
           /\ result.kind = "raise"
           /\ result.exc = "ValueError"
           /\ result.value = <<>>
           /\ Frames = <<>>
    /\ (op = "set_comfort_temperature" /\ arg[1] \notin 0..3000) =>
           /\ result.kind = "raise"
           /\ result.exc = "ValueError"
           /\ result.value = <<>>
           /\ Frames = <<>>

C12_Witness ==
    /\ op = "set_humidity_scenario_runtime"
    /\ arg = <<14>>
    /\ result.kind = "raise"
    /\ result.exc = "ValueError"

SensitivityCaptures ==
    5  :> "00005200010000003200000000000000FA000000010032" @@
    6  :> "00005200010000003C00000000000000FA000000010032" @@
    15 :> "00005200010000009600000000000000FA000000010032"

(***************************************************************************)
(* C14: set_sensor_sensitivity reproduces the captured commands of its     *)
(* docstring: the sensitivities 5, 6 and 15 yield the payloads with the    *)
(* value bytes 32, 3C and 96.                                              *)
(***************************************************************************)
C14_SensitivityCapturesReproduced ==
    (op = "set_sensor_sensitivity" /\ arg[1] \in DOMAIN SensitivityCaptures) =>
        /\ Len(Frames) = 1
        /\ Payload(Frames[1]) = SensitivityCaptures[arg[1]]

\* the radio traffic of the docstring of set_min_fan_speed_during_bypass:
\* the four value digits listed for each value
MinFanSpeedCaptures ==
    28 :> "0118" @@ 32 :> "0140" @@ 35 :> "015E" @@ 100 :> "03E8" @@
    0  :> "0000" @@ 4  :> "0028" @@ 8  :> "0050" @@ 12  :> "0078" @@
    16 :> "00A0" @@ 10 :> "0032" @@ 20 :> "00C8" @@ 60  :> "0258" @@
    70 :> "02BC" @@ 80 :> "0320" @@ 90 :> "03E8"

(***************************************************************************)
(* C15: set_min_fan_speed_during_bypass reproduces every frame of the      *)
(* radio traffic listed in its docstring: for each listed value the        *)
(* payload is 00007900110000 <listed digits> 00000000000003E8000000010032, *)
(* with 0032 listed for the value 10 and 03E8 for the value 90.            *)
(***************************************************************************)
C15_MinFanSpeedCapturesReproduced ==
    (op = "set_min_fan_speed_during_bypass" /\ arg[1] \in DOMAIN MinFanSpeedCaptures) =>
        /\ Len(Frames) = 1
        /\ Payload(Frames[1]) = "00007900110000" \o MinFanSpeedCaptures[arg[1]]
                                \o "00000000000003E8000000010032"

\* the captured commands of the docstring of _fan_speed_payload, as
\* <<parameter, percentage, payload>>
FanSpeedCaptures ==
    { <<3, 28, "00003F000F0000003800000000000000A0000000010032">>,
      <<3, 27, "00003F000F0000003600000000000000A0000000010032">>,
      <<3, 26, "00003F000F0000003400000000000000A0000000010032">>,
      <<4, 40, "000040000F0000005000000000000000A0000000010032">>,
      <<4, 26, "000040000F0000003400000000000000A0000000010032">>,
      <<5, 44, "000041000F0000005800000000000000C8000000010032">>,
      <<6, 50, "000042000F0000006400000014000000C8000000010032">>,
      <<6, 58, "000042000F0000007400000014000000C8000000010032">>,
      <<6, 60, "000042000F0000007800000014000000C8000000010032">>,
      <<7, 73, "000043000F0000009200000000000000C8000000010032">>,
      <<8, 79, "000044000F0000009E00000014000000C8000000010032">> }

\* the last 28 characters of the captured payloads of parameter par
CapturedSuffix(par) ==
    LET c == CHOOSE c \in FanSpeedCaptures : c[1] = par
    IN  SubSeq(c[3], 19, 46)

\* the frame of parameter par and percentage pct: the value byte is twice
\* the percentage and the suffix is the captured one of the parameter
MatchesCaptures(frame, par, pct) ==
    /\ Len(Payload(frame)) = 46
    /\ ValueByte(frame) = Hex2(2 * pct)
    /\ SubSeq(Payload(frame), 19, 46) = CapturedSuffix(par)
    /\ \A c \in FanSpeedCaptures :
           (c[1] = par /\ c[2] = pct) => Payload(frame) = c[3]

(***************************************************************************)
(* C16: for the parameters 3 to 8 the frame _fan_speed_payload builds      *)
(* reproduces every captured command of its docstring; at any percentage   *)
(* the value byte is twice the percentage and the 28-character suffix is   *)
(* the one fixed for the parameter.  The same holds of the two frames of   *)
(* set_fan_speed.                                                          *)
(***************************************************************************)
C16_FanSpeedCapturesReproduced ==
    /\ (op = "_fan_speed_payload" /\ arg[1] \in 3..8 /\ arg[2] \in 1..100) =>
           /\ Len(Frames) = 1
           /\ MatchesCaptures(Frames[1], arg[1], arg[2])
    /\ (op = "set_fan_speed" /\ Len(Frames) = 2) =>
           LET pct == _calculate_percentage_from_m3_per_hour(arg[2]).value
               par == SupplyParam(LevelOf(arg[1]))
           IN  /\ MatchesCaptures(Frames[1], par, pct)
               /\ MatchesCaptures(Frames[2], par + 1, pct)
    /\ \A c \in FanSpeedCaptures, d \in FanSpeedCaptures :
           c[1] = d[1] => SubSeq(c[3], 19, 46) = SubSeq(d[3], 19, 46)

C16_Witness ==
    /\ op = "_fan_speed_payload"
    /\ arg = <<8, 79>>
    /\ Len(Frames) = 1
    /\ Payload(Frames[1]) = "000044000F0000009E00000014000000C8000000010032"

ParamMsg == "Parameter must be between 3 and 8."

\* the setters of the parameters 9 to 18: parameter number and the
\* identifier byte the table gives it
LiteralIds ==
    "set_boost_mode_speed"            :> <<9,  "95">> @@
    "set_filter_replacement_time"     :> <<10, "31">> @@
    "set_humidity_scenario"           :> <<11, "4E">> @@
    "set_sensor_sensitivity"          :> <<12, "52">> @@
    "set_humidity_scenario_runtime"   :> <<13, "54">> @@
    "set_comfort_temperature"         :> <<14, "75">> @@
    "set_cooling_activation_temp"     :> <<15, "A1">> @@
    "set_min_fan_speed_during_bypass" :> <<16, "79">> @@
    "set_bypass_fan_speed_regulation" :> <<17, "E7">> @@
    "set_bypass_fan_speed_setting"    :> <<18, "E8">>

(***************************************************************************)
(* C17: _fan_speed_payload gives the parameters 3..8 the id byte           *)
(* parameter + 0x3C (3F, 40, 41, 42, 43, 44); every other parameter number *)
(* is rejected with the parameter error whatever the percentage, also an   *)
(* invalid one; the frames of the setters of the parameters 9..18 carry    *)
(* their own identifiers 95, 31, 4E, 52, 54, 75, A1, 79, E7, E8, none of   *)
(* which is parameter + 0x3C.                                              *)
(***************************************************************************)
C17_OffsetOnlyFor3To8 ==
    /\ op = "_fan_speed_payload" =>
           IF arg[1] \in 3..8
           THEN IF arg[2] \in 1..100
                THEN /\ Len(Frames) = 1
                     /\ ParamIdByte(Frames[1]) = Hex2(arg[1] + 60)
                     /\ ParamIdByte(Frames[1]) \in {"3F", "40", "41", "42", "43", "44"}
                ELSE result = Raise("ValueError", RangeMsg)
           ELSE result = Raise("ValueError", ParamMsg)
    /\ (op \in DOMAIN LiteralIds /\ Len(Frames) = 1) =>
           /\ ParamIdByte(Frames[1]) = LiteralIds[op][2]
           /\ ParamIdByte(Frames[1]) # Hex2(LiteralIds[op][1] + 60)
    /\ ParamMsg # RangeMsg

C17_Witness ==
    /\ op = "_fan_speed_payload"
    /\ arg = <<9, 0>>
    /\ result = Raise("ValueError", ParamMsg)

(***************************************************************************)
(* C18: set_fan_speed called with a level name that is not low, medium or  *)
(* high fails with the invalid-level error for every flow rate and every   *)
(* configured capacity, also when the flow rate gives a percentage outside *)
(* 1..100; no other failure, such as an arithmetic error of the percentage *)
(* computation, comes before it.                                           *)
(***************************************************************************)
C18_LevelErrorComesFirst ==
    (op = "set_fan_speed" /\ Lower(arg[1]) \notin {"low", "medium", "high"}) =>
        /\ result.kind = "raise"
        /\ result.exc = "ValueError"
        /\ result.msg = LevelMsg

\* the setter name applied to the integer v
Apply(name, v) ==
    CASE name = "set_absence_supply_fan_speed"    -> set_absence_supply_fan_speed(v)
      [] name = "set_absence_exhaust_fan_speed"   -> set_absence_exhaust_fan_speed(v)
      [] name = "set_boost_mode_speed"            -> set_boost_mode_speed(v)
      [] name = "set_filter_replacement_time"     -> set_filter_replacement_time(v)
      [] name = "set_humidity_scenario"           -> set_humidity_scenario(v)
      [] name = "set_sensor_sensitivity"          -> set_sensor_sensitivity(v)
      [] name = "set_humidity_scenario_runtime"   -> set_humidity_scenario_runtime(v)
      [] name = "set_cooling_activation_temp"     -> set_cooling_activation_temp(v)
      [] name = "set_min_fan_speed_during_bypass" -> set_min_fan_speed_during_bypass(v)
      [] name = "set_bypass_fan_speed_regulation" -> set_bypass_fan_speed_regulation(v)
      [] name = "set_bypass_fan_speed_setting"    -> set_bypass_fan_speed_setting(v)

\* the mode or bypass selector name
Select(name) ==
    CASE name = "turn_fan_off"       -> turn_fan_off
      [] name = "set_to_low_mode"    -> set_to_low_mode
      [] name = "set_to_medium_mode" -> set_to_medium_mode
      [] name = "set_to_high_mode"   -> set_to_high_mode
      [] name = "set_to_auto_mode"   -> set_to_auto_mode
      [] name = "set_to_auto2_mode"  -> set_to_auto2_mode
      [] name = "set_to_boost_mode"  -> set_to_boost_mode
      [] name = "disable_mode"       -> disable_mode
      [] name = "open_bypass"        -> open_bypass
      [] name = "close_bypass"       -> close_bypass
      [] name = "automatic_bypass"   -> automatic_bypass

\* one accepted call for each of the 18 parameters
SampleFrame(par) ==
    CASE par = 1  -> set_absence_supply_fan_speed(0).value[1]
      [] par = 2  -> set_absence_exhaust_fan_speed(0).value[1]
      [] par \in 3..8 -> _fan_speed_payload(par, 1).value
      [] par = 9  -> set_boost_mode_speed(0).value[1]
      [] par = 10 -> set_filter_replacement_time(90).value[1]
      [] par = 11 -> set_humidity_scenario(0).value[1]
      [] par = 12 -> set_sensor_sensitivity(0).value[1]
      [] par = 13 -> set_humidity_scenario_runtime(15).value[1]
      [] par = 14 -> set_comfort_temperature(TempLiteral(0)).value[1]
      [] par = 15 -> set_cooling_activation_temp(0).value[1]
      [] par = 16 -> set_min_fan_speed_during_bypass(0).value[1]
      [] par = 17 -> set_bypass_fan_speed_regulation(3).value[1]
      [] par = 18 -> set_bypass_fan_speed_setting(0).value[1]

\* the parameter the i-th frame of the call in the state writes
ParamOfFrame(i) ==
    CASE op = "set_absence_supply_fan_speed"  -> 1
      [] op = "set_absence_exhaust_fan_speed" -> 2
      [] op = "set_fan_speed"                 -> SupplyParam(Lower(arg[1])) + i - 1
      [] op = "_fan_speed_payload"            -> arg[1]
      [] op \in DOMAIN LiteralIds             -> LiteralIds[op][1]

\* the parameter id byte of the frame belongs to parameter par alone
IdByteOwnedBy(frame, par) ==
    /\ Code(frame) = "2411"
    /\ ParamIdByte(frame) = ParamIdByte(SampleFrame(par))
    /\ \A q \in 1..18 : q # par => ParamIdByte(SampleFrame(q)) # ParamIdByte(frame)

\* the percentage the fan-speed call of the state encodes
PercentageOfCall ==
    IF op = "set_fan_speed"
    THEN _calculate_percentage_from_m3_per_hour(arg[2]).value
    ELSE arg[2]

\* no other accepted argument of the operation of the state gives the
\* frame(s) of the state
OtherArgumentsDiffer ==
    CASE op \in IntSetters ->
             \A v \in IntArgs :
                 (v # arg[1] /\ Apply(op, v).kind = "return") =>
                     Apply(op, v).value # Frames
      [] op = "set_comfort_temperature" ->
             \A n \in TempArgs :
                 n # arg[1] =>
                     LET other == set_comfort_temperature(TempLiteral(n))
                     IN  other.kind = "return" => other.value # Frames
      [] op \in {"set_fan_speed", "_fan_speed_payload"} ->
             \A i \in 1..Len(Frames) :
                 \A p \in IntArgs :
                     LET other == _fan_speed_payload(ParamOfFrame(i), p)
                     IN  (p # PercentageOfCall /\ other.kind = "return") =>
                             other.value # Frames[i]
      [] op \in ModeOps \cup BypassOps ->
             \A name \in (ModeOps \cup BypassOps) \ {op} : Select(name).value # Frames

(***************************************************************************)
(* C19: the encoding is injective: for fixed addresses two different       *)
(* (operation, accepted argument) pairs never give the same frame text,    *)
(* the frames of set_fan_speed being compared per parameter and percentage *)
(* and the comfort temperature taken in steps of 0.01 degree.  The mode    *)
(* frames (22F1), the bypass frames (22F7) and the parameter frames (2411) *)
(* differ in the code field; the parameter id byte is different for each   *)
(* of the 18 parameters; within one operation different accepted           *)
(* arguments give different frames.                                        *)
(***************************************************************************)
C19_EncodingInjective ==
    (op # "idle" /\ result.kind = "return") =>
        /\ op \in ModeOps => \A i \in 1..Len(Frames) : Code(Frames[i]) = "22F1"
        /\ op \in BypassOps => \A i \in 1..Len(Frames) : Code(Frames[i]) = "22F7"
        /\ op \notin ModeOps \cup BypassOps =>
               \A i \in 1..Len(Frames) : IdByteOwnedBy(Frames[i], ParamOfFrame(i))
        /\ OtherArgumentsDiffer

\* the positions of the calls named name in client_calls
CallsNamed(name) == {i \in 1..Len(client_calls) : client_calls[i].call = name}

\* the messages handed to paho's publish, in the order of the calls
Published ==
    LET IsPublish(c) == c.call = "publish"
        calls == SelectSeq(client_calls, IsPublish)
    IN  [i \in 1..Len(calls) |-> calls[i].payload]

\* what main publishes when nothing raises: the low supply frame (parameter
\* 3), the low exhaust frame (parameter 4) and the low mode frame, each
\* wrapped as a JSON message
ExpectedMessages ==
    << "{\"msg\": \"W --- 37:1111111 32:2222222 --:------ 2411 023 00003F000F0000003400000000000000A0000000010032\"}",
       "{\"msg\": \"W --- 37:1111111 32:2222222 --:------ 2411 023 000040000F0000003400000000000000A0000000010032\"}",
       "{\"msg\": \"I --- 37:1111111 32:2222222 --:------ 22F1 003 000104\"}" >>

\* some step of main can be taken; main_build is enabled whenever pc is at
\* it, because both outcomes of the building of the commands are handled
MainCanStep ==
    \/ ENABLED main_connect
    \/ ENABLED main_sleep
    \/ pc = "build"
    \/ ENABLED main_publish
    \/ ENABLED main_pause
    \/ ENABLED main_loop_end
    \/ ENABLED main_disconnect

(***************************************************************************)
(* C20: in every execution of main, once connect has been attempted the    *)
(* client's disconnect is invoked exactly once: main cannot stop before    *)
(* the finally clause has run, whether connect, the building of the        *)
(* commands or a publish raised, and never runs it twice.  The commands    *)
(* are published one at a time in the order low supply frame (parameter    *)
(* 3), low exhaust frame (parameter 4), low mode frame (22F1), every       *)
(* publish before the disconnect; when nothing raises all three are        *)
(* published.                                                              *)
(***************************************************************************)
C20_DisconnectOnceAfterConnect ==
    pc # "not_started" =>
        /\ disconnect_calls \in 0..1
        /\ disconnect_calls = Cardinality(CallsNamed("loop_stop"))
        /\ disconnect_calls = 1 => connect_calls = 1
        /\ pc = "done" => (connect_calls = 1 /\ disconnect_calls = 1)
        /\ (pc # "done" /\ connect_calls = 1) => (disconnect_calls = 0 /\ MainCanStep)
        /\ pending # "" => pc \in {"finally", "done"}
        /\ \A i \in CallsNamed("publish"), j \in CallsNamed("loop_stop") : i < j
        /\ \A i \in CallsNamed("publish"), j \in CallsNamed("connect") : j < i
        /\ Len(Published) <= 3
        /\ Published = SubSeq(ExpectedMessages, 1, Len(Published))
        /\ (pc = "done" /\ pending = "") => Published = ExpectedMessages

C20_Witness ==
    /\ pc = "done"
    /\ pending = "PublishError"
    /\ connect_calls = 1
    /\ disconnect_calls = 1
    /\ Len(Published) = 2
    /\ client_calls[Len(client_calls)].call = "disconnect"

\* the calls of paho's publish, in order
PublishCalls ==
    LET IsPublish(c) == c.call = "publish"
    IN  SelectSeq(client_calls, IsPublish)

\* text is the JSON object {"msg": <frame>} as json.dumps writes it
IsMsgObject(text, frame) ==
    /\ Len(text) = Len(frame) + 11
    /\ SubSeq(text, 1, 9) = "{\"msg\": \""
    /\ SubSeq(text, 10, Len(text) - 2) = frame
    /\ SubSeq(text, Len(text) - 1, Len(text)) = "\"}"

(***************************************************************************)
(* C21: publish_command wraps the frame as the JSON object {"msg": frame}  *)
(* and publishes it once, without retry: the k-th publish carries the k-th *)
(* command and every turn of the loop makes exactly one publish.  A result *)
(* code other than success is only logged: publish_command returns, and    *)
(* main goes on to publish the remaining commands.  An exception of the    *)
(* publish is re-raised to main, which publishes none of the remaining     *)
(* commands.                                                               *)
(***************************************************************************)
C21_PublishOnceRcLoggedRaisePropagates ==
    pc # "not_started" =>
        LET pub == PublishCalls
        IN  /\ Len(pub) <= Len(commands)
            /\ \A k \in 1..Len(pub) : IsMsgObject(pub[k].payload, commands[k])
            /\ pc = "publish" => Len(pub) = next_cmd - 1
            /\ pc = "pause" => Len(pub) = next_cmd
            /\ \A k \in 1..Len(pub) :
                   /\ pub[k].outcome = "raise" =>
                          /\ k = Len(pub)
                          /\ pc \in {"finally", "done"}
                          /\ pending # ""
                          /\ pc = "finally" => pending = "PublishError"
                   /\ (pub[k].outcome = "rc_error" /\ k = Len(pub)) =>
                          /\ pending \in {"", "DisconnectError"}
                          /\ pc \in {"finally", "done"} => k = Len(commands)
            /\ (pc \in {"finally", "done"} /\ commands # <<>>
                  /\ \A k \in 1..Len(pub) : pub[k].outcome # "raise") =>
                   Len(pub) = Len(commands)

C21_Witness ==
    /\ pc = "done"
    /\ pending = ""
    /\ Len(PublishCalls) = 3
    /\ PublishCalls[1].outcome = "rc_error"
    /\ PublishCalls[2].outcome = "success"
    /\ PublishCalls[3].outcome = "rc_error"

====
